---- MODULE Spec2Model ----
(***************************************************************************)
(* A model of omnibust (src/omnibust.py): the reference parser, the        *)
(* reference rewriter, the path resolver, the bust token generator and     *)
(* the scan/rewrite commands.                                              *)
(*                                                                         *)
(* A Python string is a sequence of characters; a character is a string of *)
(* length one ("a", "/", "?").  The characters of a digest are the values  *)
(* HashChar(x, i): see digest_data.                                        *)
(***************************************************************************)
EXTENDS Integers, Sequences, FiniteSets, TLC

VARIABLES
    line,            \* rewriter: the line of a code file the reference is parsed
                     \* from: its text and the parts the text is made of
    ref,             \* rewriter: the Ref handed to updated_fullref
    new_bustcode,    \* rewriter: the new bust code
    target_reftype,  \* rewriter: the target reference type (None: keep the type)
    new_fullref,     \* rewriter: what updated_fullref returned
    restored,        \* rewriter: what rewriting new_fullref back returned
    rwpc,            \* rewriter: "parsed", "rewritten", "restored"
    files,           \* buster: the content and the modification time of each file
    digest_len,      \* buster: the digest_len of mk_buster
    stat_len,        \* buster: the stat_len of mk_buster
    _cache,          \* buster: the _cache of the buster
    watched,         \* buster: the list of all files, whose calls are recorded
    calls,           \* buster: the last call of the buster for watched, with
                     \* what it differs in from the call before it
    silent,          \* buster: the files whose content changed at an unchanged
                     \* modification time after the buster cached their bust
    base_dir,        \* resolver: the directory of the code file of the reference
    ref_path,        \* resolver: the path of the reference
    static_filepaths,\* resolver: the paths of the static files
    static_dir,      \* resolver: what closest_matching_path returned
    static_filepath, \* resolver: what find_static_filepath returned
    rspc,            \* resolver: "asked", "answered"
    now,             \* project: the time of the clock of the file system
    codefile_paths,  \* project: the paths of the code files, as enumerated
    static_paths,    \* project: the paths of the static files
    option,          \* project: the target reference type of the command line
    last_run,        \* project: what the last run of a command did
    outside,         \* project: a file was changed from outside since the
                     \* last run of rewrite
    multibust,       \* expander: the multibust table of the configuration
    expanded,        \* expander: what expand_path returned
    reffed_filepaths,\* expander: the static files scan_project attached to
                     \* the reference
    ref_bust,        \* expander: the bust code of the attached static files
    xpc,             \* expander: "asked", "expanded", "scanned"
    code_lines,      \* parser: the lines of the content of a code file
    plain_parsing,   \* parser: the parse_plain of parse_content_refs
    content_refs,    \* parser: what parse_content_refs returned
    ppc,             \* parser: "read", "parsed"
    args,            \* dispatch: the arguments of the command line
    cfg,             \* dispatch: the configuration, as written and as read_cfg
                     \* returns it
    dpc              \* dispatch: "called", "loaded", "ran"

rwvars == <<line, ref, new_bustcode, target_reftype, new_fullref, restored, rwpc>>

bvars == <<files, digest_len, stat_len, _cache, watched, calls, silent>>

rsvars == <<base_dir, ref_path, static_filepaths, static_dir, static_filepath, rspc>>

pvars == <<now, codefile_paths, static_paths, option, last_run, outside>>

xvars == <<multibust, expanded, reffed_filepaths, ref_bust, xpc>>

psvars == <<code_lines, plain_parsing, content_refs, ppc>>

dvars == <<args, cfg, dpc>>

vars == <<rwvars, bvars, rsvars, pvars, xvars, psvars, dvars>>

----------------------------------------------------------------------------
(* Python values that are not strings.  Each is a one-element sequence     *)
(* whose element is no character, so it compares with every string.        *)

None == <<"None">>
TypeError == <<"TypeError">>
AttributeError == <<"AttributeError">>
UnboundLocalError == <<"UnboundLocalError">>

Exceptions == {TypeError, AttributeError, UnboundLocalError}

IsStr(v) == v \notin Exceptions \cup {None}

----------------------------------------------------------------------------
(* Characters and character classes of the regular expressions.            *)

\* the literal characters that are not \w
NonWordChars ==
    {"/", ".", "?", "=", "&", "(", ")", "'", "\"", " ", ":", "<", ">", "-",
     ";", ",", "$", "{", "}"}

IsQuote(c) == c \in {"'", "\""}
IsSpace(c) == c = " "
\* \w: letters, digits and "_" (a digest character is a letter or a digit)
IsWord(c) == c \notin NonWordChars
\* [a-zA-Z0-9]
IsAlnum(c) == IsWord(c) /\ c # "_"
\* [\?=&\w]
IsTail(c) == c \in {"?", "=", "&"} \/ IsWord(c)
\* ["'\)]
IsCloser(c) == c \in {"'", "\"", ")"}
\* [^"'\)\s\?]
IsDirChar(c) == ~(IsQuote(c) \/ c = ")" \/ IsSpace(c) \/ c = "?")
\* [^\/"'\)\s\?]
IsFnChar(c) == IsDirChar(c) /\ c # "/"

----------------------------------------------------------------------------------------------------------------------------------------------------
(* Let(v, Body) is Body(v) with v evaluated once.                          *)

Let(v, Body(_)) == CHOOSE r \in {Body(x) : x \in {v}} : TRUE

\* the set of the elements of a sequence
Range(seq) == {seq[k] : k \in 1..Len(seq)}

Min(S) == Let(S, LAMBDA T : CHOOSE x \in T : \A y \in T : x <= y)
Max(S) == Let(S, LAMBDA T : CHOOSE x \in T : \A y \in T : x >= y)

----------------------------------------------------------------------------
(* str methods.                                                            *)

\* s[:n] and s[n:] for n >= 0
Take(s, n) == SubSeq(s, 1, IF n < Len(s) THEN n ELSE Len(s))
Drop(s, n) == SubSeq(s, n + 1, Len(s))

\* pat occurs in s at index i (1-based)
MatchAt(s, i, pat) ==
    /\ i >= 1
    /\ i + Len(pat) - 1 <= Len(s)
    /\ \A k \in 1..Len(pat) : s[i + k - 1] = pat[k]

\* s.find(pat, from): the least index >= from where pat occurs, 0 for none
Find(s, pat, from) ==
    Let({i \in from..(Len(s) - Len(pat) + 1) : MatchAt(s, i, pat)},
        LAMBDA hits : IF hits = {} THEN 0 ELSE Min(hits))

\* s.rfind(pat): the greatest index where pat occurs, 0 for none
RFind(s, pat) ==
    Let({i \in 1..(Len(s) - Len(pat) + 1) : MatchAt(s, i, pat)},
        LAMBDA hits : IF hits = {} THEN 0 ELSE Max(hits))

\* pat in s
Contains(s, pat) == \E i \in 1..(Len(s) - Len(pat) + 1) : MatchAt(s, i, pat)

\* s.endswith(suf)
EndsWith(s, suf) ==
    /\ Len(suf) <= Len(s)
    /\ SubSeq(s, Len(s) - Len(suf) + 1, Len(s)) = suf

\* new before every character of s and at its end
RECURSIVE Interleave(_, _)
Interleave(s, new) ==
    IF s = <<>> THEN new
    ELSE Let(Tail(s), LAMBDA rest : new \o <<Head(s)>> \o Interleave(rest, new))

\* s.replace(old, new): every non-overlapping occurrence, leftmost first
RECURSIVE str_replace(_, _, _)
str_replace(s, old, new) ==
    IF old = <<>> THEN Interleave(s, new)
    ELSE Let(Find(s, old, 1), LAMBDA i :
             IF i = 0 THEN s
             ELSE Let(Drop(s, i + Len(old) - 1), LAMBDA rest :
                      SubSeq(s, 1, i - 1) \o new \o str_replace(rest, old, new)))

----------------------------------------------------------------------------
(* os.path functions (posixpath).                                          *)

Sep == <<"/">>

\* s.rstrip("/")
rstrip_sep(s) ==
    Let({k \in 1..Len(s) : s[k] # "/"},
        LAMBDA ks : IF ks = {} THEN <<>> ELSE SubSeq(s, 1, Max(ks)))

\* os.path.split(p): <<head, tail>>
path_split(p) ==
    Let(RFind(p, Sep), LAMBDA i :
        Let(SubSeq(p, 1, i), LAMBDA head :
            IF head # <<>> /\ (\E k \in 1..Len(head) : head[k] # "/")
            THEN <<rstrip_sep(head), Drop(p, i)>>
            ELSE <<head, Drop(p, i)>>))

\* os.path.splitext(p): <<root, ext>>; leading dots of the filename are no
\* extension
path_splitext(p) ==
    Let(RFind(p, Sep), LAMBDA sepIndex :
        Let(RFind(p, <<".">>), LAMBDA dotIndex :
            IF dotIndex > sepIndex
               /\ \E k \in (sepIndex + 1)..(dotIndex - 1) : p[k] # "."
            THEN <<SubSeq(p, 1, dotIndex - 1), Drop(p, dotIndex - 1)>>
            ELSE <<p, <<>> >>))

\* os.path.join(a, b)
path_join(a, b) ==
    IF b # <<>> /\ b[1] = "/" THEN b
    ELSE IF a = <<>> \/ a[Len(a)] = "/" THEN a \o b
    ELSE a \o Sep \o b

----
(* References: Ref, the reference types, and the rewriter.                 *)

PLAIN_REF == 1
FN_REF == 2
QS_REF == 3
\* target_reftype=None
NO_REFTYPE == 0

CB == <<"_", "c", "b", "_">>
CB_EQ == <<"_", "c", "b", "_", "=">>
Q_CB_EQ == <<"?", "_", "c", "b", "_", "=">>
AMP_CB_EQ == <<"&", "_", "c", "b", "_", "=">>
QMARK == <<"?">>
AMP == <<"&">>

Ref(code_dir, code_fn, lineno, full_ref, path, bustcode, type) ==
    [code_dir |-> code_dir, code_fn |-> code_fn, lineno |-> lineno,
     full_ref |-> full_ref, path |-> path, bustcode |-> bustcode,
     type |-> type]

\* a + b of Python strings: a TypeError when b is None
Concat(a, b) == IF b = None THEN TypeError ELSE a \o b

\* s.replace(old, new) where evaluating s or old may have raised an exception
Replace(s0, old0, new) ==
    Let(s0, LAMBDA s : Let(old0, LAMBDA old :
        IF s \in Exceptions THEN s
        ELSE IF old \in Exceptions THEN old
        ELSE str_replace(s, old, new)))

mk_plainref(r) ==
    IF r.type = PLAIN_REF THEN r.full_ref
    ELSE IF r.type = FN_REF
    THEN Replace(r.full_ref, Concat(CB, r.bustcode), <<>>)
    ELSE Replace(
             Replace(
                 Replace(r.full_ref, Concat(Q_CB_EQ, r.bustcode), QMARK),
                 Concat(AMP_CB_EQ, r.bustcode), <<>>),
             <<"?", "&">>, QMARK)

set_fn_bustcode(r, code) ==
    Let(path_split(r.path), LAMBDA dir_fn :
        Let(path_splitext(dir_fn[2]), LAMBDA base_ext :
            Let(dir_fn[1] \o Sep \o base_ext[1] \o CB \o code \o base_ext[2],
                LAMBDA fnref : Replace(mk_plainref(r), r.path, fnref))))

\* set_qs_bustcode without the replacement of the "?" of the parameters
set_qs_bustcode_keeping_qmark(r, code) ==
    Replace(mk_plainref(r), r.path, r.path \o Q_CB_EQ \o code)

set_qs_bustcode(r, code) ==
    Let(r.path \o Q_CB_EQ \o code, LAMBDA new_refpath :
        Let(Replace(mk_plainref(r), r.path, new_refpath), LAMBDA new_ref :
            IF new_ref \in Exceptions THEN new_ref
            ELSE IF Contains(new_ref, new_refpath \o QMARK)
            THEN Replace(new_ref, new_refpath \o QMARK, new_refpath \o AMP)
            ELSE new_ref))

replace_bustcode(r, code) ==
    IF r.type \notin {FN_REF, QS_REF} THEN UnboundLocalError
    ELSE Let(IF r.type = QS_REF THEN CB_EQ ELSE CB, LAMBDA prefix :
             Replace(r.full_ref, Concat(prefix, r.bustcode), prefix \o code))

updated_fullref(r, code, target) ==
    Let(IF target = NO_REFTYPE THEN r.type ELSE target, LAMBDA tgt :
        IF r.bustcode = code /\ r.type = tgt THEN None
        ELSE IF r.type = tgt THEN replace_bustcode(r, code)
        ELSE IF tgt = PLAIN_REF THEN AttributeError
        ELSE IF tgt = FN_REF THEN set_fn_bustcode(r, code)
        ELSE set_qs_bustcode(r, code))

----------------------------------------------------------------------------
(* The three regular expressions.  A match is a record of 1-based          *)
(* positions: the matched text is s[start..end].  Each operator computes   *)
(* the match Python's backtracking matcher finds: greedy groups take the   *)
(* longest text, lazy groups the shortest, alternatives go left to right.  *)

URL_OPEN == <<"u", "r", "l", "(">>
HREF_OPEN == <<"h", "r", "e", "f", "=">>
SRC_OPEN == <<"s", "r", "c", "=">>

CharAt(s, i) == IF i >= 1 /\ i <= Len(s) THEN s[i] ELSE ""

\* the end of the longest run of characters of class P(_) that starts at i
\* (i - 1 when s[i] is not of the class)
RunEnd(s, i, P(_)) ==
    IF i > Len(s) THEN i - 1
    ELSE Let({j \in i..Len(s) : ~P(s[j])},
             LAMBDA stops : IF stops = {} THEN Len(s) ELSE Min(stops) - 1)

NotQuote(c) == ~IsQuote(c)

NoMatch == [start |-> 0]

\* [\?=&\w]*["'\)]* from position i: the end of the match
TailEnd(s, i) ==
    Let(RunEnd(s, i, IsTail), LAMBDA t : RunEnd(s, t + 1, IsCloser))

\* (url\(["']?|href=["']|src=["']) at i: the position after it, 0 for no match
PlainOpenerEnd(s, i) ==
    IF MatchAt(s, i, URL_OPEN)
    THEN IF IsQuote(CharAt(s, i + 4)) THEN i + 5 ELSE i + 4
    ELSE IF MatchAt(s, i, HREF_OPEN) /\ IsQuote(CharAt(s, i + 5)) THEN i + 6
    ELSE IF MatchAt(s, i, SRC_OPEN) /\ IsQuote(CharAt(s, i + 4)) THEN i + 5
    ELSE 0

\* the path of PLAIN_REF_RE from p on, the opener matched at i.
\* (?P<dir>[^"'\)\s\?]+\/)? ends at the last "/" that has a character before
\* it and a filename character after it
PlainPathAt(s, i, p) ==
    Let(RunEnd(s, p, IsDirChar), LAMBDA run :
    Let({j \in (p + 1)..(run - 1) : s[j] = "/" /\ IsFnChar(s[j + 1])},
        LAMBDA slashes :
    Let(IF slashes = {} THEN p ELSE Max(slashes) + 1, LAMBDA fnstart :
    Let(RunEnd(s, fnstart, IsFnChar), LAMBDA fnend :
        IF fnend < fnstart THEN NoMatch
        ELSE [start |-> i, end |-> TailEnd(s, fnend + 1),
              path |-> SubSeq(s, p, fnend)]))))

\* PLAIN_REF_RE anchored at i
PlainMatchAt(s, i) ==
    Let(PlainOpenerEnd(s, i), LAMBDA p :
        IF p = 0 THEN NoMatch ELSE PlainPathAt(s, i, p))

\* (url\(["']?|href=["']?|src=["']?)? at i: the positions after it, in the
\* order the matcher tries them (the empty match of the group comes last)
MarkedOpenerEnds(s, i) ==
    Let(IF MatchAt(s, i, URL_OPEN) THEN i + 4
        ELSE IF MatchAt(s, i, HREF_OPEN) THEN i + 5
        ELSE IF MatchAt(s, i, SRC_OPEN) THEN i + 4
        ELSE 0,
        LAMBDA kw :
            IF kw = 0 THEN <<i>>
            ELSE IF IsQuote(CharAt(s, kw)) THEN <<kw + 1, kw, i>>
            ELSE <<kw, i>>)

\* (?P<bust>[a-zA-Z0-9]{0,16})(?P<ext>\.\w+) matches at q + 4, after a "_cb_"
\* at q: the bust code is the whole run of letters and digits
FnBustOk(s, q) ==
    Let(RunEnd(s, q + 4, IsAlnum), LAMBDA b :
        /\ b - (q + 4) + 1 <= 16
        /\ CharAt(s, b + 1) = "."
        /\ b + 2 <= Len(s)
        /\ IsWord(s[b + 2]))

\* _cb_(?P<bust>[a-zA-Z0-9]{0,16})(?P<ext>\.\w+) matches at q
FnRestOk(s, q) == MatchAt(s, q, CB) /\ FnBustOk(s, q)

\* the match of FN_REF_RE that starts at i, has its prefix at p and "_cb_" at q
FnMatchWith(s, i, p, q) ==
    Let(RunEnd(s, q + 4, IsAlnum), LAMBDA b :
    Let(RunEnd(s, b + 2, IsWord), LAMBDA e :
        [start |-> i, end |-> TailEnd(s, e + 1),
         prefix |-> SubSeq(s, p, q - 1),
         bust |-> SubSeq(s, q + 4, b),
         ext |-> SubSeq(s, b + 1, e)]))

\* FN_REF_RE with the prefix starting at p: (?P<prefix>[^"']+?) takes the
\* fewest characters
FnMatchFrom(s, i, p) ==
    Let(RunEnd(s, p, NotQuote), LAMBDA last :
    Let({q \in (p + 1)..(last + 1) : FnRestOk(s, q)}, LAMBDA qs :
        IF qs = {} THEN NoMatch
        ELSE Let(Min(qs), LAMBDA q : FnMatchWith(s, i, p, q))))

\* the first match among the alternatives, in their order
FirstMatch(s, i, ends, From(_, _, _)) ==
    Let([k \in 1..Len(ends) |-> From(s, i, ends[k])], LAMBDA ms :
    Let({k \in 1..Len(ends) : ms[k].start # 0}, LAMBDA ok :
        IF ok = {} THEN NoMatch ELSE ms[Min(ok)]))

\* FN_REF_RE anchored at i
FnMatchAt(s, i) ==
    Let(MarkedOpenerEnds(s, i), LAMBDA ends : FirstMatch(s, i, ends, FnMatchFrom))

\* \?(.+?&)?_cb_ at q: the position of "_cb_", 0 for no match.  The group
\* (.+?&)? is tried first: the fewest characters, at least one, up to "&_cb_"
QsCbPos(s, q) ==
    IF CharAt(s, q) # "?" THEN 0
    ELSE Let(Find(s, <<"&", "_", "c", "b", "_">>, q + 2), LAMBDA amp :
             IF amp # 0 THEN amp + 1
             ELSE IF MatchAt(s, q + 1, CB) THEN q + 1
             ELSE 0)

\* the match of QS_REF_RE that starts at i, has its reference at p, "?" at q
\* and the character after "_cb_" at c.  (=(?P<bust>[a-zA-Z0-9]{0,16}))? takes
\* at most 16 letters and digits
QsMatchWith(s, i, p, q, c) ==
    IF CharAt(s, c) # "="
    THEN [start |-> i, end |-> TailEnd(s, c),
          ref |-> SubSeq(s, p, q - 1), bust |-> None]
    ELSE Let(RunEnd(s, c + 1, IsAlnum), LAMBDA run :
         Let(IF run - c > 16 THEN c + 16 ELSE run, LAMBDA b :
             [start |-> i, end |-> TailEnd(s, b + 1),
              ref |-> SubSeq(s, p, q - 1), bust |-> SubSeq(s, c + 1, b)]))

\* QS_REF_RE with the reference starting at p: (?P<ref>[^"']+?) takes the
\* fewest characters
QsMatchFrom(s, i, p) ==
    Let(RunEnd(s, p, NotQuote), LAMBDA last :
    Let({q \in (p + 1)..(last + 1) : QsCbPos(s, q) # 0}, LAMBDA qs :
        IF qs = {} THEN NoMatch
        ELSE Let(Min(qs), LAMBDA q :
             Let(QsCbPos(s, q) + 4, LAMBDA c : QsMatchWith(s, i, p, q, c)))))

\* QS_REF_RE anchored at i
QsMatchAt(s, i) ==
    Let(MarkedOpenerEnds(s, i), LAMBDA ends : FirstMatch(s, i, ends, QsMatchFrom))

\* regex.search(s, pos): the leftmost match from position pos on, NoMatch
\* for none
RECURSIVE PlainSearch(_, _)
PlainSearch(s, pos) ==
    IF pos > Len(s) THEN NoMatch
    ELSE Let(PlainMatchAt(s, pos), LAMBDA m :
             IF m.start # 0 THEN m ELSE PlainSearch(s, pos + 1))

\* (no match without a "_cb_", a bust code and an extension after pos)
RECURSIVE FnSearch(_, _)
FnSearch(s, pos) ==
    IF ~\E q \in (pos + 1)..Len(s) : FnRestOk(s, q) THEN NoMatch
    ELSE Let(FnMatchAt(s, pos), LAMBDA m :
             IF m.start # 0 THEN m ELSE FnSearch(s, pos + 1))

\* (no match without a "?" with its "_cb_" after pos)
RECURSIVE QsSearch(_, _)
QsSearch(s, pos) ==
    IF ~\E q \in (pos + 1)..Len(s) : QsCbPos(s, q) # 0 THEN NoMatch
    ELSE Let(QsMatchAt(s, pos), LAMBDA m :
             IF m.start # 0 THEN m ELSE QsSearch(s, pos + 1))

\* regex.finditer(s): the matches from position pos on, left to right,
\* without overlap
RECURSIVE PlainFindIter(_, _)
PlainFindIter(s, pos) ==
    Let(PlainSearch(s, pos), LAMBDA m :
        IF m.start = 0 THEN <<>> ELSE <<m>> \o PlainFindIter(s, m.end + 1))

RECURSIVE FnFindIter(_, _)
FnFindIter(s, pos) ==
    Let(FnSearch(s, pos), LAMBDA m :
        IF m.start = 0 THEN <<>> ELSE <<m>> \o FnFindIter(s, m.end + 1))

RECURSIVE QsFindIter(_, _)
QsFindIter(s, pos) ==
    Let(QsSearch(s, pos), LAMBDA m :
        IF m.start = 0 THEN <<>> ELSE <<m>> \o QsFindIter(s, m.end + 1))

----------------------------------------------------------------------------
(* The reference parser.  The content of a file is the sequence of its     *)
(* lines (content.splitlines()).                                           *)

DATA_IMAGE == <<"d", "a", "t", "a", ":", "i", "m", "a", "g", "e", "/">>

\* flatten(lists)
RECURSIVE flatten(_)
flatten(lists) ==
    IF lists = <<>> THEN <<>>
    ELSE Let(Tail(lists), LAMBDA rest : Head(lists) \o flatten(rest))

\* the matches as <<full_ref, ref_path, bust, type>>
plainref_line_parser(s) ==
    Let(PlainFindIter(s, 1), LAMBDA ms :
    Let(SelectSeq([k \in 1..Len(ms) |->
                      <<SubSeq(s, ms[k].start, ms[k].end), ms[k].path, <<>>,
                        PLAIN_REF>>],
                  LAMBDA m : ~Contains(m[1], CB)),
        LAMBDA keep : keep))

markedref_line_parser(s) ==
    IF ~Contains(s, CB) THEN <<>>
    ELSE Let(FnFindIter(s, 1), LAMBDA fns :
         Let(QsFindIter(s, 1), LAMBDA qss :
             [k \in 1..Len(fns) |->
                 <<SubSeq(s, fns[k].start, fns[k].end),
                   fns[k].prefix \o fns[k].ext, fns[k].bust, FN_REF>>]
             \o
             [k \in 1..Len(qss) |->
                 <<SubSeq(s, qss[k].start, qss[k].end), qss[k].ref,
                   qss[k].bust, QS_REF>>]))

\* fullref.startswith("data:image/"): the test of a parse_refs that looks
\* at the start of the reference only
starts_with_data_image(fullref) == MatchAt(fullref, 1, DATA_IMAGE)

\* "data:image/" in fullref
in_data_image(fullref) == Contains(fullref, DATA_IMAGE)

\* the references of one line; lineno is 1-based
LineRefs(line_parser(_), content, lineno) ==
    Let(SelectSeq(line_parser(content[lineno]),
                  LAMBDA m : ~in_data_image(m[1])),
        LAMBDA ms :
            [k \in 1..Len(ms) |->
                Ref(<<>>, <<>>, lineno, ms[k][1], ms[k][2], ms[k][3], ms[k][4])])

\* parse_refs(line_parser, content)
parse_refs(line_parser(_), content) ==
    flatten([lineno \in 1..Len(content) |->
                LineRefs(line_parser, content, lineno)])

\* the dict seen of parse_content_refs after all_refs[1..n], as the sequence
\* of its values in the order of insertion of their keys
RECURSIVE SeenRefs(_, _)
SeenRefs(all_refs, n) ==
    IF n = 0 THEN <<>>
    ELSE Let(SeenRefs(all_refs, n - 1), LAMBDA seen :
         Let({k \in 1..Len(seen) :
                 /\ seen[k].lineno = all_refs[n].lineno
                 /\ seen[k].full_ref = all_refs[n].full_ref},
             LAMBDA at :
                 IF at = {} THEN Append(seen, all_refs[n])
                 ELSE Let(Min(at), LAMBDA k :
                          IF seen[k].type < all_refs[n].type
                          THEN [seen EXCEPT ![k] = all_refs[n]]
                          ELSE seen)))

\* sorted(refs, key=lambda r: r.lineno): a stable sort
sorted_by_lineno(refs) ==
    Let({refs[k].lineno : k \in 1..Len(refs)}, LAMBDA linenos :
        IF linenos = {} THEN <<>>
        ELSE flatten([n \in 1..Max(linenos) |->
                         SelectSeq(refs, LAMBDA r : r.lineno = n)]))

parse_content_refs(content, parse_plain) ==
    Let((IF parse_plain THEN parse_refs(plainref_line_parser, content)
         ELSE <<>>)
        \o
        (IF \E n \in 1..Len(content) : Contains(content[n], CB)
         THEN parse_refs(markedref_line_parser, content)
         ELSE <<>>),
        LAMBDA all_refs :
            Let(SeenRefs(all_refs, Len(all_refs)), LAMBDA seen :
                sorted_by_lineno(seen)))

----------------------------------------------------------------------------
(* The bust code generator.  A file is its content and its modification    *)
(* time; files maps a path to the file.                                    *)

\* a sha1 digest has 20 bytes, which b32enc encodes as 32 characters
DigestSize == 32

\* the i-th character of the digest of data.  The hash is taken as free of
\* collisions, in every one of its characters: the character names the data
HashChar(data, i) == ToString(<<data, i>>)

\* digest_data(data)[:n]
DigestPrefix(data, n) ==
    [i \in 1..(IF n < 0 THEN (IF DigestSize + n > 0 THEN DigestSize + n ELSE 0)
               ELSE IF n < DigestSize THEN n ELSE DigestSize) |->
        HashChar(data, i)]

\* digest_data(data)
digest_data(data) == DigestPrefix(data, DigestSize)

\* unicode(mtime): the text of a float
unicode(mtime) == <<ToString(mtime), ".", "0">>

\* filestat(filepath)[:n]
filestat(fs, filepath, n) == DigestPrefix(unicode(fs[filepath].mtime), n)

\* _cache.get(key, "")
cache_get(cache, key) == IF key \in DOMAIN cache THEN cache[key] ELSE <<>>

\* _cache[key] = value
cache_set(cache, key, value) ==
    [k \in DOMAIN cache \cup {key} |-> IF k = key THEN value ELSE cache[k]]

\* the _buster of a buster that never answers from its cache
buster_without_cache(cache, fs, filepath) ==
    Let((IF digest_len = 0 THEN <<>>
         ELSE DigestPrefix(fs[filepath].content, digest_len))
        \o (IF stat_len = 0 THEN <<>> ELSE filestat(fs, filepath, stat_len)),
        LAMBDA bust :
            [bust |-> bust, cache |-> cache_set(cache, filepath, bust),
             hit |-> FALSE])

\* the _buster of a buster whose cache always answers for a cached file
buster_trusting_cache(cache, fs, filepath) ==
    IF filepath \in DOMAIN cache
    THEN [bust |-> cache[filepath], cache |-> cache, hit |-> TRUE]
    ELSE Let((IF digest_len = 0 THEN <<>>
              ELSE DigestPrefix(fs[filepath].content, digest_len))
             \o (IF stat_len = 0 THEN <<>>
                 ELSE filestat(fs, filepath, stat_len)),
             LAMBDA bust :
                 [bust |-> bust, cache |-> cache_set(cache, filepath, bust),
                  hit |-> FALSE])

\* the _buster of a buster that caches the stat in place of the bust
buster_caching_stat(cache, fs, filepath) ==
    Let(IF stat_len = 0 THEN <<>> ELSE filestat(fs, filepath, stat_len),
        LAMBDA stat :
    Let(cache_get(cache, filepath), LAMBDA old_bust :
        IF stat # <<>> /\ EndsWith(old_bust, stat)
        THEN [bust |-> old_bust, cache |-> cache, hit |-> TRUE]
        ELSE Let(IF digest_len = 0 THEN <<>>
                 ELSE DigestPrefix(fs[filepath].content, digest_len),
                 LAMBDA digest :
                     [bust |-> digest \o stat,
                      cache |-> cache_set(cache, filepath, stat),
                      hit |-> FALSE])))

\* _buster(filepath): the bust of the file, the cache after the call and
\* whether the cache answered
_buster(cache, fs, filepath) ==
    Let(IF stat_len = 0 THEN <<>> ELSE filestat(fs, filepath, stat_len),
        LAMBDA stat :
    Let(cache_get(cache, filepath), LAMBDA old_bust :
        IF stat # <<>> /\ EndsWith(old_bust, stat)
        THEN [bust |-> old_bust, cache |-> cache, hit |-> TRUE]
        ELSE Let(IF digest_len = 0 THEN <<>>
                 ELSE DigestPrefix(fs[filepath].content, digest_len),
                 LAMBDA digest :
                 Let(digest \o stat, LAMBDA bust :
                     [bust |-> bust,
                      cache |-> cache_set(cache, filepath, bust),
                      hit |-> FALSE]))))

\* the loop of _bust_paths over busts: full_bust, the cache after the calls
\* of _buster and the paths the cache answered for
RECURSIVE FullBust(_, _, _)
FullBust(cache, fs, paths) ==
    IF paths = <<>>
    THEN [full_bust |-> <<>>, busts |-> <<>>, cache |-> cache, hits |-> {}]
    ELSE Let(_buster(cache, fs, Head(paths)), LAMBDA b :
         Let(FullBust(b.cache, fs, Tail(paths)), LAMBDA rest :
             [full_bust |-> b.bust \o rest.full_bust,
              busts |-> <<b.bust>> \o rest.busts,
              cache |-> rest.cache,
              hits |-> (IF b.hit THEN {Head(paths)} ELSE {}) \cup rest.hits]))

\* the _bust_paths of a buster whose bust code of several paths is the busts
\* of the paths one after the other
bust_paths_concatenating(cache, fs, paths) ==
    Let(FullBust(cache, fs, paths), LAMBDA r :
        [bust |-> r.full_bust,
         busts |-> r.busts,
         cache |-> r.cache,
         hits |-> r.hits])

\* the _bust_paths of a buster whose bust code of several paths is made of
\* the bust of the first path alone
bust_paths_of_first(cache, fs, paths) ==
    Let(FullBust(cache, fs, paths), LAMBDA r :
        [bust |-> IF Len(paths) = 1 THEN r.full_bust
                  ELSE DigestPrefix(r.busts[1],
                                    Len(r.full_bust) \div Len(paths)),
         busts |-> r.busts,
         cache |-> r.cache,
         hits |-> r.hits])

\* _bust_paths(paths): the bust code, the cache after the call and the
\* paths the cache answered for
_bust_paths(cache, fs, paths) ==
    Let(FullBust(cache, fs, paths), LAMBDA r :
        [bust |-> IF Len(paths) = 1 THEN r.full_bust
                  ELSE DigestPrefix(r.full_bust,
                                    Len(r.full_bust) \div Len(paths)),
         busts |-> r.busts,
         cache |-> r.cache,
         hits |-> r.hits])

----------------------------------------------------------------------------
(* The path resolver.  A set is iterated in an order of its elements that  *)
(* the program does not choose: dirpaths is the sequence of the elements   *)
(* of the set in the order of the iteration.                               *)

\* s.split(os.sep)
RECURSIVE split(_)
split(s) ==
    Let(Find(s, Sep, 1), LAMBDA k :
        IF k = 0 THEN <<s>>
        ELSE Let(Drop(s, k), LAMBDA rest : <<Take(s, k - 1)>> \o split(rest)))

\* os.sep.join(parts)
RECURSIVE join(_)
join(parts) ==
    IF parts = <<>> THEN <<>>
    ELSE IF Len(parts) = 1 THEN parts[1]
    ELSE Let(Tail(parts), LAMBDA rest : parts[1] \o Sep \o join(rest))

\* seq[-n:] for n > 0
LastN(seq, n) == IF n >= Len(seq) THEN seq ELSE SubSeq(seq, Len(seq) - n + 1, Len(seq))

\* suffix_matcher(i, elem) of closest_matching_path
suffix_matcher(refdir, i, elem) ==
    i < Len(refdir) /\ refdir[Len(refdir) - i] = elem[Len(elem) - i]

\* prefix_matcher(i, elem) of closest_matching_path
prefix_matcher(code_dirpath, i, elem) ==
    i < Len(code_dirpath) /\ code_dirpath[i + 1] = elem[i + 1]

\* _filter(i, elem): _filter is one of the two matchers with the tuple of
\* components it matches against
Call(_filter, i, elem) ==
    IF _filter.matcher = "suffix_matcher"
    THEN suffix_matcher(_filter.against, i, elem)
    ELSE prefix_matcher(_filter.against, i, elem)

\* the inner loop of filter_longest: i + 1 after the loop
MatchCount(_filter, elem) ==
    Let({i \in 0..(Len(elem) - 1) : ~Call(_filter, i, elem)}, LAMBDA fails :
        IF fails = {} THEN Len(elem) ELSE Min(fails))

\* filter_longest(_filter, iterator): the first element with the greatest
\* count, the empty tuple when every count is 0
filter_longest(_filter, iterator) ==
    Let([k \in 1..Len(iterator) |-> MatchCount(_filter, iterator[k])],
        LAMBDA counts :
    Let(Max({0} \cup Range(counts)), LAMBDA length :
        [length |-> length,
         longest |-> IF length = 0 THEN <<>>
                     ELSE iterator[Min({k \in 1..Len(iterator) :
                                           counts[k] = length})]]))

\* mk_fn_dir_map(filepaths)
mk_fn_dir_map(filepaths) ==
    [filename \in {path_split(p)[2] : p \in filepaths} |->
        {path_split(p)[1] : p \in {q \in filepaths : path_split(q)[2] = filename}}]

\* the second part of closest_matching_path: the paths with the suffix and
\* the longest prefix among them
ClosestWithSuffix(code_dirpath, split_dirpaths, suffix) ==
    Let(IF suffix = <<>> THEN split_dirpaths
        ELSE SelectSeq(split_dirpaths,
                       LAMBDA p : LastN(p, Len(suffix)) = suffix),
        LAMBDA suffix_paths :
            IF Len(suffix_paths) > 1
            THEN join(filter_longest([matcher |-> "prefix_matcher",
                                      against |-> code_dirpath],
                                     suffix_paths).longest)
            ELSE join(suffix_paths[1]))

\* closest_matching_path(code_dirpath, refdir, dirpaths)
closest_matching_path(code_dirpath, refdir, dirpaths) ==
    IF Len(dirpaths) = 1 THEN dirpaths[1]
    ELSE
    Let(SelectSeq(split(IF EndsWith(refdir, Sep)
                        THEN Take(refdir, Len(refdir) - 1) ELSE refdir),
                  LAMBDA part : part # <<>>),
        LAMBDA refdir_parts :
    Let([k \in 1..Len(dirpaths) |-> split(dirpaths[k])],
        LAMBDA split_dirpaths :
    Let(filter_longest([matcher |-> "suffix_matcher", against |-> refdir_parts],
                       split_dirpaths),
        LAMBDA found :
    Let(IF found.length = 0 THEN <<>> ELSE LastN(found.longest, found.length),
        LAMBDA suffix :
        ClosestWithSuffix(split(code_dirpath), split_dirpaths, suffix)))))

\* the orders a set can be iterated in
Orders(S) ==
    {seq \in [1..Cardinality(S) -> S] :
        \A i, j \in 1..Cardinality(S) : i # j => seq[i] # seq[j]}

\* the orders in which the sets of an index of mk_fn_dir_map can be iterated
Iterations(fn_dirs) ==
    {it \in [DOMAIN fn_dirs -> UNION {Orders(fn_dirs[fn]) : fn \in DOMAIN fn_dirs}] :
        \A fn \in DOMAIN fn_dirs : it[fn] \in Orders(fn_dirs[fn])}

\* find_static_filepath(base_dir, ref_path, static_fn_dirs); static_fn_dirs
\* maps a filename to its directories in the order of their iteration
find_static_filepath(dir, path, static_fn_dirs) ==
    Let(path_split(path), LAMBDA dir_fn :
        IF dir_fn[2] \notin DOMAIN static_fn_dirs THEN None
        ELSE path_join(closest_matching_path(dir, dir_fn[1],
                                             static_fn_dirs[dir_fn[2]]),
                       dir_fn[2]))

\* list(find_static_filepaths(base_dir, ref_paths, static_fn_dirs))
find_static_filepaths(dir, paths, static_fn_dirs) ==
    SelectSeq([k \in 1..Len(paths) |->
                  find_static_filepath(dir, paths[k], static_fn_dirs)],
              LAMBDA found : found # None /\ found # <<>>)

\* expand_path of a program that uses only the first replacement of a marker
expand_path_first_replacement(path, marker_table) ==
    {path} \cup
    {str_replace(path, search, marker_table[search][1]) :
        search \in {m \in DOMAIN marker_table :
                       Contains(path, m) /\ marker_table[m] # <<>>}}

\* expand_path(path, multibust); the table maps a marker to the list of its
\* replacements
expand_path(path, marker_table) ==
    {path} \cup
    UNION {{str_replace(path, search, marker_table[search][k]) :
               k \in 1..Len(marker_table[search])} :
           search \in {m \in DOMAIN marker_table : Contains(path, m)}}

\* ref_paths(ref, multibust): the orders in which the paths of expand_path
\* can be yielded
ref_paths(path, marker_table) == Orders(expand_path(path, marker_table))

----------------------------------------------------------------------------
(* The lines the rewriter is exercised on: one reference                   *)
(*     url('<dir>a[_cb_<token>].js[?<parameters>]')                        *)
(* of each type, with the bust code in every position among the other      *)
(* query parameters.                                                       *)

\* the greatest number of unrelated query parameters of a reference
MaxParams == 2

OPEN == <<"u", "r", "l", "(", "'">>
CLOSE == <<"'", ")">>
STEM == <<"a">>
EXT == <<".", "j", "s">>

\* several directory components, directly under the root, no directory
Dirs == {<<"/", "s", "/", "i", "/">>, <<"/">>, <<>>}

\* unrelated query parameters: the second holds the text of the old bust
\* code, the last two the marker followed by the old bust code
ParamPool ==
    << <<"x", "=", "1">>,
       <<"v", "=", "1", "2">>,
       <<"w", "_", "c", "b", "_", "1", "2">>,
       <<"y", "_", "c", "b", "_", "=", "1", "2">> >>

OldCodes == {<<>>, <<"1", "2">>}
NewCodes == {<<>>, <<"1", "2">>, <<"n", "7">>}
RefTypes == {PLAIN_REF, FN_REF, QS_REF}

RECURSIVE SortedSeq(_)
SortedSeq(S) ==
    IF S = {} THEN <<>>
    ELSE Let(Min(S), LAMBDA m : Let(S \ {m}, LAMBDA rest : <<m>> \o SortedSeq(rest)))

\* the choices of unrelated parameters, in the order of the pool
ParamChoices ==
    {Let(SortedSeq(S), LAMBDA order : [k \in 1..Len(order) |-> ParamPool[order[k]]]) :
        S \in {T \in SUBSET (1..Len(ParamPool)) : Cardinality(T) <= MaxParams}}

\* "&".join(params)
RECURSIVE JoinAmp(_)
JoinAmp(params) ==
    IF params = <<>> THEN <<>>
    ELSE IF Len(params) = 1 THEN params[1]
    ELSE Let(Tail(params), LAMBDA rest : params[1] \o AMP \o JoinAmp(rest))

\* the text of a reference of the given type: the bust code tok (None: a
\* "_cb_" parameter without "=") and the parameters pre before and post after
\* the "_cb_" parameter
LineText(dir, type, tok, pre, post) ==
    Let(IF type = QS_REF
        THEN pre \o <<IF tok = None THEN CB ELSE CB_EQ \o tok>> \o post
        ELSE pre \o post,
        LAMBDA params :
    Let(IF params = <<>> THEN <<>> ELSE QMARK \o JoinAmp(params), LAMBDA query :
    Let(IF type = FN_REF THEN CB \o tok ELSE <<>>, LAMBDA marker :
        OPEN \o dir \o STEM \o marker \o EXT \o query \o CLOSE)))

Line(dir, type, tok, pre, post) ==
    [text |-> LineText(dir, type, tok, pre, post), dir |-> dir, type |-> type,
     tok |-> tok, pre |-> pre, post |-> post]

Lines ==
    {Line(dir, PLAIN_REF, <<>>, ps, <<>>) : dir \in Dirs, ps \in ParamChoices}
    \cup
    {Line(dir, FN_REF, tok, ps, <<>>) :
        dir \in Dirs, tok \in OldCodes, ps \in ParamChoices}
    \cup
    UNION {{Line(dir, QS_REF, tok, Take(ps, k), Drop(ps, k)) : k \in 0..Len(ps)} :
        dir \in Dirs, tok \in OldCodes \cup {None}, ps \in ParamChoices}

----------------------------------------------------------------------------
(* The parts of the program at rest.                                       *)

\* the rewriter at rest
RewriterIdle ==
    /\ line = <<>>
    /\ ref = <<>>
    /\ new_bustcode = <<>>
    /\ target_reftype = NO_REFTYPE
    /\ new_fullref = None
    /\ restored = None
    /\ rwpc = "idle"

\* the resolver at rest
ResolverIdle ==
    /\ base_dir = <<>>
    /\ ref_path = <<>>
    /\ static_filepaths = {}
    /\ static_dir = None
    /\ static_filepath = None
    /\ rspc = "idle"

\* no command line
DispatchIdle ==
    /\ args = <<>>
    /\ cfg = <<>>
    /\ dpc = "idle"

\* the expander at rest
ExpanderIdle ==
    /\ multibust = <<>>
    /\ expanded = {}
    /\ reffed_filepaths = <<>>
    /\ ref_bust = <<>>
    /\ xpc = "idle"

\* the parser at rest
ParserIdle ==
    /\ code_lines = <<>>
    /\ plain_parsing = FALSE
    /\ content_refs = <<>>
    /\ ppc = "idle"

\* the buster at rest
BusterIdle ==
    /\ files = <<>>
    /\ digest_len = 0
    /\ stat_len = 0
    /\ _cache = <<>>
    /\ watched = <<>>
    /\ calls = <<>>
    /\ silent = {}

\* no project
ProjectIdle ==
    /\ now = 0
    /\ codefile_paths = <<>>
    /\ static_paths = {}
    /\ option = NO_REFTYPE
    /\ last_run = <<>>
    /\ outside = FALSE

----------------------------------------------------------------------------
(* The buster: a buster made by mk_buster is called for lists of paths     *)
(* while files are written and touched; the program may start again with a *)
(* new buster.                                                             *)

MaxMtime == 1
MaxDigestLen == 1
MaxStatLen == 1

\* the lists of all files: one file, two files
FileLists == {<<"a">>, <<"a", "b">>}
Contents == {<<"f", "o", "o">>, <<"b", "a", "r">>}
Mtimes == 0..MaxMtime

\* the lists of paths a buster is called for: some of the files
PathLists == {<<path>> : path \in DOMAIN files} \cup {watched}

InitBuster ==
    /\ RewriterIdle
    /\ DispatchIdle
    /\ ResolverIdle
    /\ ProjectIdle
    /\ ExpanderIdle
    /\ ParserIdle
    /\ watched \in FileLists
    /\ files \in [Range(watched) -> [content : Contents, mtime : {0}]]
    /\ digest_len \in {0, MaxDigestLen}
    /\ stat_len \in {0, MaxStatLen}
    /\ _cache = <<>>
    /\ calls = <<>>
    /\ silent = {}

\* what a call for watched that returns bust at the files fs records of the
\* call before it: whether that call returned the same bust code and
\* whether a content or a modification time has changed since
PreviousCall(before, bust, busts, fs) ==
    IF before = <<>> THEN <<>>
    ELSE <<[same_bust |-> before[1].bust = bust,
            busts_changed |->
                {k \in 1..Len(busts) : before[1].busts[k] # busts[k]},
            content_changed |->
                \E path \in Range(watched) :
                    before[1].files[path].content # fs[path].content,
            mtime_changed |->
                \E path \in Range(watched) :
                    before[1].files[path].mtime # fs[path].mtime]>>

\* buster(paths): a call of the _bust_paths of the buster
BustPaths(paths) ==
    /\ \E r \in {_bust_paths(_cache, files, paths)} :
          /\ _cache' = r.cache
          /\ calls' =
                IF paths # watched THEN calls
                ELSE <<[files |-> [path \in Range(paths) |-> files[path]],
                        bust |-> r.bust,
                        busts |-> r.busts,
                        hits |-> r.hits,
                        warm |-> r.hits = Range(paths),
                        previous |-> PreviousCall(calls, r.bust, r.busts, files)]>>
    /\ UNCHANGED <<files, digest_len, stat_len, watched, silent, rwvars, rsvars, pvars, xvars, psvars, dvars>>

\* open(path, 'w').write(content): the modification time becomes the time
\* of the write, which is the old one when both fall in one tick of the
\* clock of the file system
WriteFile(path, content) ==
    /\ content # files[path].content
    /\ \E mtime \in {files[path].mtime, files[path].mtime + 1} \cap Mtimes :
          /\ files' = [files EXCEPT ![path] =
                          [content |-> content, mtime |-> mtime]]
          /\ silent' = IF mtime = files[path].mtime /\ path \in DOMAIN _cache
                       THEN silent \cup {path}
                       ELSE silent
    /\ UNCHANGED <<digest_len, stat_len, _cache, watched, calls, rwvars, rsvars, pvars, xvars, psvars, dvars>>

\* touch(path): a later modification time, the same content
TouchFile(path) ==
    /\ files[path].mtime < MaxMtime
    /\ files' = [files EXCEPT ![path].mtime = @ + 1]
    /\ UNCHANGED <<digest_len, stat_len, _cache, watched, calls, silent, rwvars, rsvars, pvars, xvars, psvars, dvars>>

\* the program starts again: mk_buster makes a buster with an empty cache
Restart ==
    /\ _cache # <<>>
    /\ _cache' = <<>>
    /\ calls' = <<>>
    /\ silent' = {}
    /\ UNCHANGED <<files, digest_len, stat_len, watched, rwvars, rsvars, pvars, xvars, psvars, dvars>>

NextBuster ==
    \/ \E paths \in PathLists : BustPaths(paths)
    \/ \E path \in DOMAIN files, content \in Contents : WriteFile(path, content)
    \/ \E path \in DOMAIN files : TouchFile(path)
    \/ Restart

SpecBuster == InitBuster /\ [][NextBuster]_vars

----------------------------------------------------------------------------
(* The resolver: find_static_filepath is asked for the static file of a    *)
(* reference path in a code file of a directory.                           *)

MaxStatic == 3

StaticPool ==
    {<<"a", "/", "s", "/", "x">>,
     <<"b", "/", "s", "/", "x">>,
     <<"a", "/", "t", "/", "x">>,
     <<"b", "/", "s", "/", "j", "/", "x">>,
     <<"a", "/", "s", "/", "y">>}

RefPathPool ==
    {<<"/", "s", "/", "x">>, <<"x">>,
     <<"/", "x">>, <<"/", "s", "/", "j", "/", "x">>,
     <<"s", "/", "x">>, <<"/", "t", "/", "x">>,
     <<"j", "/", "x">>, <<"/", "q", "/", "z">>}

BaseDirs ==
    {<<"a">>, <<"b">>, <<"c">>, <<"a", "/", "t">>}

InitResolver ==
    /\ RewriterIdle
    /\ DispatchIdle
    /\ BusterIdle
    /\ ProjectIdle
    /\ ExpanderIdle
    /\ ParserIdle
    /\ base_dir \in BaseDirs
    /\ ref_path \in RefPathPool
    /\ static_filepaths \in
          {S \in SUBSET StaticPool : Cardinality(S) <= MaxStatic}
    /\ static_dir = None
    /\ static_filepath = None
    /\ rspc = "asked"

\* find_static_filepath(base_dir, ref_path, static_fn_dirs): the filename
\* is no key of the index
FilenameUnknown ==
    /\ rspc = "asked"
    /\ path_split(ref_path)[2] \notin DOMAIN mk_fn_dir_map(static_filepaths)
    /\ static_dir' = None
    /\ static_filepath' = None
    /\ rspc' = "answered"
    /\ UNCHANGED <<base_dir, ref_path, static_filepaths, rwvars, bvars, pvars, xvars, psvars, dvars>>

\* find_static_filepath(base_dir, ref_path, static_fn_dirs): the filename
\* is a key of the index, whose set of directories is iterated in some order
FindStaticFilepath ==
    /\ rspc = "asked"
    /\ \E dir_fn \in {path_split(ref_path)} :
       \E static_fn_dirs \in {mk_fn_dir_map(static_filepaths)} :
          /\ dir_fn[2] \in DOMAIN static_fn_dirs
          /\ \E dirpaths \in Orders(static_fn_dirs[dir_fn[2]]) :
             \E closest \in {closest_matching_path(base_dir, dir_fn[1], dirpaths)} :
                /\ static_dir' = closest
                /\ static_filepath' = path_join(closest, dir_fn[2])
    /\ rspc' = "answered"
    /\ UNCHANGED <<base_dir, ref_path, static_filepaths, rwvars, bvars, pvars, xvars, psvars, dvars>>

NextResolver ==
    \/ FilenameUnknown
    \/ FindStaticFilepath

SpecResolver == InitResolver /\ [][NextResolver]_vars

----------------------------------------------------------------------------
(* The expander: the path of a reference is expanded with the multibust    *)
(* table, and scan_project attaches to the reference the static files of   *)
(* the expanded paths, whose bust code the buster computes.                *)

\* the greatest number of replacements of a multibust table
MaxReplacements == 2

LANG == <<"{", "l", "}">>

KIND == <<"{", "t", "}">>

Markers == {LANG, KIND}

ReplacementPool == {<<"a">>, <<"b">>, KIND}

ReplacementLists(n) == UNION {[1..k -> ReplacementPool] : k \in 1..n}

\* the number of replacements of a multibust table
TableSize(table) ==
    (IF LANG \in DOMAIN table THEN Len(table[LANG]) ELSE 0)
    + (IF KIND \in DOMAIN table THEN Len(table[KIND]) ELSE 0)

\* the multibust tables of a configuration
MarkerTables ==
    UNION {{table \in [S -> ReplacementLists(MaxReplacements)] :
               TableSize(table) <= MaxReplacements} :
           S \in SUBSET Markers}

ExpandedRefPaths ==
    {<<"/">> \o LANG \o <<"/", "s", "/", "x">>,
     <<"/", "s", "/">> \o LANG,
     <<"/">> \o LANG \o <<"/">> \o KIND,
     <<"/">> \o LANG \o <<"/">> \o LANG,
     <<"/", "s", "/", "x">>}

ExpandedStatic ==
    {{<<"a", "/", "s", "/", "x">>, <<"b", "/", "s", "/", "x">>,
      <<"s", "/", "a">>, <<"s", "/", "b">>},
     {<<"a", "/", "s", "/", "x">>, <<"a", "/", "a">>, <<"a", "/", "b">>,
      <<"b", "/", "b">>},
     {<<"b", "/", "s", "/", "x">>, <<"s", "/", "b">>}}

InitExpander ==
    /\ RewriterIdle
    /\ DispatchIdle
    /\ ProjectIdle
    /\ ParserIdle
    /\ base_dir \in {<<"a">>, <<"b">>}
    /\ ref_path \in ExpandedRefPaths
    /\ static_filepaths \in ExpandedStatic
    /\ static_dir = None
    /\ static_filepath = None
    /\ rspc = "idle"
    /\ files = [path \in static_filepaths |-> [content |-> path, mtime |-> 0]]
    /\ digest_len = MaxDigestLen
    /\ stat_len = MaxStatLen
    /\ _cache = <<>>
    /\ watched = <<>>
    /\ calls = <<>>
    /\ silent = {}
    /\ multibust \in MarkerTables
    /\ expanded = {}
    /\ reffed_filepaths = <<>>
    /\ ref_bust = <<>>
    /\ xpc = "asked"

\* expand_path(ref.path, multibust)
ExpandPath ==
    /\ xpc = "asked"
    /\ expanded' = expand_path(ref_path, multibust)
    /\ xpc' = "expanded"
    /\ UNCHANGED <<multibust, reffed_filepaths, ref_bust, rwvars, bvars, rsvars, pvars, psvars, dvars>>

\* the body of the loop of scan_project for the reference, and the bust
\* code busted_refs computes for what it attached
ScanRef ==
    /\ xpc = "expanded"
    /\ \E paths \in (IF DOMAIN multibust # {} THEN ref_paths(ref_path, multibust)
                     ELSE {<<ref_path>>}),
          static_fn_dirs \in Iterations(mk_fn_dir_map(static_filepaths)) :
          \E reffed \in {find_static_filepaths(base_dir, paths, static_fn_dirs)} :
             /\ reffed_filepaths' = reffed
             /\ ref_bust' = IF reffed = <<>> THEN <<>>
                            ELSE _bust_paths(<<>>, files, reffed).bust
    /\ xpc' = "scanned"
    /\ UNCHANGED <<multibust, expanded, rwvars, bvars, rsvars, pvars, psvars, dvars>>

NextExpander ==
    \/ ExpandPath
    \/ ScanRef

SpecExpander == InitExpander /\ [][NextExpander]_vars

----------------------------------------------------------------------------
(* The rewriter: a reference parsed from a line is rewritten with a bust   *)
(* code and a target type, and the result may be rewritten back.           *)

InitRewriter ==
    /\ DispatchIdle
    /\ BusterIdle
    /\ ResolverIdle
    /\ ProjectIdle
    /\ ExpanderIdle
    /\ ParserIdle
    /\ \E l \in Lines :
        \E refs \in {parse_content_refs(<<l.text>>, TRUE)} :
            \E k \in 1..Len(refs) :
                /\ line = l
                /\ ref = refs[k]
    /\ new_bustcode = <<>>
    /\ target_reftype = NO_REFTYPE
    /\ new_fullref = None
    /\ restored = None
    /\ rwpc = "parsed"

\* updated_fullref(ref, code, target)
Rewrite(code, target) ==
    /\ rwpc = "parsed"
    /\ new_bustcode' = code
    /\ target_reftype' = target
    /\ new_fullref' = updated_fullref(ref, code, target)
    /\ rwpc' = "rewritten"
    /\ UNCHANGED <<line, ref, restored, bvars, rsvars, pvars, xvars, psvars, dvars>>

\* the result of a rewrite to QS_REF is parsed again and rewritten to the
\* type and the bust code of the original reference
Restore ==
    /\ rwpc = "rewritten"
    /\ target_reftype = QS_REF
    /\ IsStr(new_fullref)
    /\ \E refs \in {parse_content_refs(<<new_fullref>>, TRUE)} :
          restored' = IF refs = <<>> THEN None
                      ELSE updated_fullref(refs[1], ref.bustcode, ref.type)
    /\ rwpc' = "restored"
    /\ UNCHANGED <<line, ref, new_bustcode, target_reftype, new_fullref, bvars, rsvars, pvars, xvars, psvars, dvars>>

NextRewriter ==
    \/ \E code \in NewCodes, target \in RefTypes \cup {NO_REFTYPE} :
          Rewrite(code, target)
    \/ Restore

SpecRewriter == InitRewriter /\ [][NextRewriter]_vars

----------------------------------------------------------------------------
(* The commands.  The content of a code file is the sequence of its lines. *)

\* ref_codepath(ref)
ref_codepath(r) == path_join(r.code_dir, r.code_fn)

\* list(iter_refs(codefile_paths, parse_plain)) at the files fs
iter_refs(fs, paths, parse_plain) ==
    flatten([k \in 1..Len(paths) |->
        Let(path_split(paths[k]), LAMBDA dir_fn :
        Let(parse_content_refs(fs[paths[k]].content, parse_plain), LAMBDA refs :
            [n \in 1..Len(refs) |->
                [refs[n] EXCEPT !.code_dir = dir_fn[1], !.code_fn = dir_fn[2]]]))])

\* scan_project(codefile_paths, static_filepaths, parse_plain=parse_plain)
\* without multibust, refs being what iter_refs yields: the items of the
\* OrderedDict, each <<ref, reffed_filepaths>>
scan_project(refs, static_fn_dirs) ==
    Let([k \in 1..Len(refs) |->
            <<refs[k],
              find_static_filepaths(refs[k].code_dir, <<refs[k].path>>,
                                    static_fn_dirs)>>],
        LAMBDA items :
            SelectSeq([k \in 1..Len(items) |->
                          IF \E j \in 1..(k - 1) : items[j][1] = items[k][1]
                          THEN <<items[k][1], <<>> >>
                          ELSE items[k]],
                      LAMBDA item : item[2] # <<>>))

\* the rewrite_content of a program that replaces the reference in every
\* file of the project
rewrite_content_everywhere(fs, r, new_full_ref, t) ==
    [path \in DOMAIN fs |->
        [content |-> [n \in 1..Len(fs[path].content) |->
                         str_replace(fs[path].content[n], r.full_ref, new_full_ref)],
         mtime |-> t]]

\* rewrite_content(ref, new_full_ref) at the time t: the files after it
rewrite_content(fs, r, new_full_ref, t) ==
    Let(ref_codepath(r), LAMBDA codepath :
    Let(fs[codepath].content, LAMBDA content :
        [fs EXCEPT ![codepath] =
            [content |-> [n \in 1..Len(content) |->
                             str_replace(content[n], r.full_ref, new_full_ref)],
             mtime |-> t]]))

\* a run of a command that has not looked at a reference yet
RunStart(fs, refs, ref_map) ==
    [files |-> fs, cache |-> <<>>, reported |-> 0, written |-> <<>>,
     crashed |-> FALSE, refs |-> refs, ref_map |-> ref_map]

\* one turn of the loops of a program whose status consumes the references
\* as rewrite does
busted_ref_rewriting(run, item, target, write, t) ==
    Let(_bust_paths(run.cache, run.files, item[2]), LAMBDA busted :
        IF item[1].bustcode = busted.bust
        THEN [run EXCEPT !.cache = busted.cache]
        ELSE Let(updated_fullref(item[1], busted.bust, target),
                 LAMBDA new_full_ref :
            IF ~IsStr(new_full_ref)
            THEN [run EXCEPT !.cache = busted.cache, !.crashed = TRUE]
            ELSE [run EXCEPT
                     !.files = rewrite_content(run.files, item[1], new_full_ref, t),
                     !.cache = busted.cache,
                     !.reported = @ + 1,
                     !.written = Append(@, ref_codepath(item[1]))]))

\* one turn of the loop of busted_refs and, when write, of the loop of
\* rewrite that consumes it, for the item <<ref, paths>>
BustedRef(run, item, target, write, t) ==
    Let(_bust_paths(run.cache, run.files, item[2]), LAMBDA busted :
        IF item[1].bustcode = busted.bust
        THEN [run EXCEPT !.cache = busted.cache]
        ELSE Let(updated_fullref(item[1], busted.bust, target),
                 LAMBDA new_full_ref :
            IF ~IsStr(new_full_ref)
            THEN [run EXCEPT !.cache = busted.cache, !.crashed = TRUE]
            ELSE IF ~write
            THEN [run EXCEPT !.cache = busted.cache, !.reported = @ + 1]
            ELSE [run EXCEPT
                     !.files = rewrite_content(run.files, item[1], new_full_ref, t),
                     !.cache = busted.cache,
                     !.reported = @ + 1,
                     !.written = Append(@, ref_codepath(item[1]))]))

\* the loops of busted_refs and rewrite from the k-th item of ref_map
RECURSIVE BustedRefs(_, _, _, _, _, _)
BustedRefs(run, ref_map, k, target, write, t) ==
    IF k > Len(ref_map) \/ run.crashed THEN run
    ELSE Let(BustedRef(run, ref_map[k], target, write, t), LAMBDA next :
             BustedRefs(next, ref_map, k + 1, target, write, t))

\* status(args, cfg) and rewrite(args, cfg): the run of the command
Command(fs, paths, static_fn_dirs, target, write, t) ==
    Let(iter_refs(fs, paths, target # NO_REFTYPE), LAMBDA refs :
    Let(scan_project(refs, static_fn_dirs), LAMBDA ref_map :
    Let(RunStart(fs, refs, ref_map), LAMBDA start :
        BustedRefs(start, ref_map, 1, target, write, t))))

----------------------------------------------------------------------------
(* The project: a page h/a.h refers to the style sheet s/b.c and to the    *)
(* image s/c.p, on two lines; the style sheet s/b.c refers to the image.   *)
(* The image is a static file, the style sheet may be one; the page is a   *)
(* code file and the style sheet may be one.  The commands run while the   *)
(* clock ticks and the image is edited.                                    *)

PAGE == <<"h", "/", "a", ".", "h">>
SHEET == <<"s", "/", "b", ".", "c">>
IMAGE == <<"s", "/", "c", ".", "p">>

\* the path of the image in a reference
IMAGE_URL == <<"/", "s", "/", "c", ".", "p">>

\* the text of a reference to /s/<stem><ext> of the given type
RefText(stem, ext, type, tok) ==
    OPEN \o <<"/", "s", "/">> \o stem
    \o (IF type = FN_REF THEN CB \o tok ELSE <<>>) \o ext
    \o (IF type = QS_REF THEN Q_CB_EQ \o tok ELSE <<>>) \o CLOSE

\* the type and the bust code of the references of the project at the start
RefKinds ==
    {<<PLAIN_REF, <<>> >>, <<FN_REF, <<"1", "2">> >>, <<QS_REF, <<"1", "2">> >>}

\* the contents of the page: a reference to the style sheet and one to the
\* image; or, the references being plain, a reference to the image that is
\* not closed and a reference to a file /s/c.p/q.z, which is no static file
PageContents(kind) ==
    {<<RefText(<<"b">>, <<".", "c">>, kind[1], kind[2]),
       RefText(<<"c">>, <<".", "p">>, kind[1], kind[2])>>}
    \cup
    (IF kind[1] # PLAIN_REF THEN {}
     ELSE {<<OPEN \o IMAGE_URL,
             OPEN \o IMAGE_URL \o <<"/", "q", ".", "z">> \o CLOSE>>})

\* the greatest bust_length of the configuration
MaxBustLength == 2

\* the enumerations of the code files
CodefileLists == {<<PAGE>>, <<PAGE, SHEET>>, <<SHEET, PAGE>>}

\* the static files of the index: all, the image only
StaticLists == {{SHEET, IMAGE}, {IMAGE}}

\* the projects: the style sheet is a code file or a static file or both
Projects ==
    {project \in CodefileLists \X StaticLists :
        \/ project[2] = {SHEET, IMAGE}
        \/ project[1] = <<PAGE, SHEET>>}

\* the values of bust_length of the configuration
BustLengths == {MaxBustLength - 1, MaxBustLength}

Init ==
    /\ RewriterIdle
    /\ DispatchIdle
    /\ ResolverIdle
    /\ ExpanderIdle
    /\ ParserIdle
    /\ \E page \in RefKinds, sheet \in RefKinds :
       \E lines \in PageContents(page) :
          /\ page = sheet
          /\ files =
             [path \in {PAGE, SHEET, IMAGE} |->
                 [content |->
                     IF path = PAGE THEN lines
                     ELSE IF path = SHEET
                     THEN <<RefText(<<"c">>, <<".", "p">>, sheet[1], sheet[2])>>
                     ELSE <<"f", "o", "o">>,
                  mtime |-> 0]]
    /\ \E bust_length \in BustLengths :
          /\ stat_len = bust_length \div 2
          /\ digest_len = bust_length - bust_length \div 2
    /\ _cache = <<>>
    /\ watched = <<>>
    /\ calls = <<>>
    /\ silent = {}
    /\ now = 0
    /\ \E project \in Projects :
          /\ codefile_paths = project[1]
          /\ static_paths = project[2]
    /\ option \in {NO_REFTYPE, FN_REF, QS_REF}
    /\ last_run = <<>>
    /\ outside = FALSE

\* a run of a command: the index of the static files is iterated in some
\* order
Run(write) ==
    \E static_fn_dirs \in Iterations(mk_fn_dir_map(static_paths)) :
    \E run \in {Command(files, codefile_paths, static_fn_dirs, option, write, now)} :
       /\ files' = run.files
       /\ last_run' = <<[command |-> IF write THEN "rewrite" ELSE "status",
                         reported |-> run.reported,
                         written |-> run.written,
                         crashed |-> run.crashed,
                         refs |-> run.refs,
                         ref_map |-> run.ref_map,
                         busted |-> DOMAIN run.cache,
                         follows |-> \E k \in 1..Len(last_run) :
                                        /\ last_run[k].command = "rewrite"
                                        /\ ~last_run[k].crashed
                                        /\ ~outside]>>
       /\ outside' = IF write THEN FALSE ELSE outside

\* omnibust status
Status ==
    /\ Run(FALSE)
    /\ UNCHANGED <<now, codefile_paths, static_paths, option>>
    /\ UNCHANGED <<digest_len, stat_len, _cache, watched, calls, silent>>
    /\ UNCHANGED <<rwvars, rsvars, xvars, psvars, dvars>>

\* omnibust rewrite
RewriteCommand ==
    /\ Run(TRUE)
    /\ UNCHANGED <<now, codefile_paths, static_paths, option>>
    /\ UNCHANGED <<digest_len, stat_len, _cache, watched, calls, silent>>
    /\ UNCHANGED <<rwvars, rsvars, xvars, psvars, dvars>>

\* the image is edited from outside the program, once between two runs of
\* rewrite
EditImage(content) ==
    /\ ~outside
    /\ content # files[IMAGE].content
    /\ files' = [files EXCEPT ![IMAGE] = [content |-> content, mtime |-> now]]
    /\ outside' = TRUE
    /\ UNCHANGED <<now, codefile_paths, static_paths, option, last_run>>
    /\ UNCHANGED <<digest_len, stat_len, _cache, watched, calls, silent>>
    /\ UNCHANGED <<rwvars, rsvars, xvars, psvars, dvars>>

\* the clock of the file system ticks (the clock is read in the modification
\* times only: a tick shows once a file carries the time before it)
Tick ==
    /\ now < MaxMtime
    /\ \E path \in DOMAIN files : files[path].mtime = now
    /\ now' = now + 1
    /\ UNCHANGED <<codefile_paths, static_paths, option, last_run, outside>>
    /\ UNCHANGED <<bvars, rwvars, rsvars, xvars, psvars, dvars>>

Next ==
    \/ Status
    \/ RewriteCommand
    \/ \E content \in Contents : EditImage(content)
    \/ Tick

Spec == Init /\ [][Next]_vars

----------------------------------------------------------------------------
(* The parser: parse_content_refs is called for the content of a code      *)
(* file, with and without the parsing of plain references.                 *)

\* the greatest number of lines of a content
MaxLines == 2

PLAIN_TEXT == RefText(<<"b">>, <<".", "c">>, PLAIN_REF, <<>>)

FN_TEXT == RefText(<<"b">>, <<".", "c">>, FN_REF, <<"1">>)

QS_TEXT == RefText(<<"c">>, <<".", "p">>, QS_REF, <<"1">>)

\* url(data:image/p;A)
DATA_URI == URL_OPEN \o DATA_IMAGE \o <<"p", ";", "A", ")">>

\* url(data:image/p;A_cb_1.p)
MARKED_DATA_URI == URL_OPEN \o DATA_IMAGE \o <<"p", ";", "A">> \o CB \o <<"1", ".", "p", ")">>

\* url('/s/c.p?a-b&_cb_=1')
DASHED_TEXT ==
    OPEN \o <<"/", "s", "/", "c", ".", "p", "?", "a", "-", "b">>
    \o AMP_CB_EQ \o <<"1">> \o CLOSE

\* the lines of the contents: no reference, one reference, two references
\* of different types in both orders, data URIs
CodeLines ==
    {<<"f", "o", "o">>,
     PLAIN_TEXT,
     QS_TEXT,
     PLAIN_TEXT \o <<" ">> \o FN_TEXT,
     FN_TEXT \o <<" ">> \o PLAIN_TEXT,
     QS_TEXT \o <<" ">> \o FN_TEXT,
     DATA_URI,
     PLAIN_TEXT \o <<" ">> \o DATA_URI,
     MARKED_DATA_URI,
     DASHED_TEXT}

InitParser ==
    /\ RewriterIdle
    /\ DispatchIdle
    /\ BusterIdle
    /\ ResolverIdle
    /\ ProjectIdle
    /\ ExpanderIdle
    /\ code_lines \in UNION {[1..n -> CodeLines] : n \in 1..MaxLines}
    /\ plain_parsing \in BOOLEAN
    /\ content_refs = <<>>
    /\ ppc = "read"

\* parse_content_refs(content, parse_plain)
ParseContent ==
    /\ ppc = "read"
    /\ content_refs' = parse_content_refs(code_lines, plain_parsing)
    /\ ppc' = "parsed"
    /\ UNCHANGED <<code_lines, plain_parsing, rwvars, bvars, rsvars, pvars, xvars, dvars>>

NextParser == ParseContent

SpecParser == InitParser /\ [][NextParser]_vars

----------------------------------------------------------------------------
(* The command line: dispatch reads the configuration and runs status or   *)
(* rewrite with the target reference type of the arguments, on a project   *)
(* of one page that refers to one image.                                   *)

STATUS == <<"s", "t", "a", "t", "u", "s">>
REWRITE == <<"r", "e", "w", "r", "i", "t", "e">>
FILENAME == <<"-", "-", "f", "i", "l", "e", "n", "a", "m", "e">>
QUERYSTRING == <<"-", "-", "q", "u", "e", "r", "y", "s", "t", "r", "i", "n", "g">>
QUIET == <<"-", "q">>
HELP == <<"-", "h">>
NO_INIT == <<"-", "-", "n", "o", "-", "i", "n", "i", "t">>

\* get_flag(args, flag): flag[1:3] is the second and the third character
get_flag(argv, flag) ==
    flag \in Range(argv) \/ SubSeq(flag, 2, 3) \in Range(argv)

\* get_command(args)
get_command(argv) == argv[1]

\* get_target_reftype(args); NO_REFTYPE is None
get_target_reftype(argv) ==
    IF get_flag(argv, FILENAME) THEN FN_REF
    ELSE IF get_flag(argv, QUERYSTRING) THEN QS_REF
    ELSE NO_REFTYPE

\* read_cfg(args) for a configuration file that states the bust_length only
read_cfg(written) ==
    [bust_length |-> written.bust_length,
     stat_length |-> written.bust_length \div 2,
     digest_length |-> written.bust_length - written.bust_length \div 2]

\* the options after the command
OptionLists ==
    {<<>>, <<FILENAME>>, <<QUERYSTRING>>, <<QUIET>>, <<HELP>>, <<NO_INIT>>,
     <<NO_INIT, QUERYSTRING>>}

ArgLists == {<<command>> \o options : command \in {STATUS, REWRITE},
                                      options \in OptionLists}

\* the greatest number of calls of the program
MaxRuns == 2

\* the bust_length of the configuration file: negative, zero, positive
WrittenCfgs == [bust_length : (-1)..MaxBustLength]

InitDispatch ==
    /\ RewriterIdle
    /\ ResolverIdle
    /\ ExpanderIdle
    /\ ParserIdle
    /\ \E page \in RefKinds :
          files =
             [path \in {PAGE, IMAGE} |->
                 [content |->
                     IF path = PAGE
                     THEN <<RefText(<<"c">>, <<".", "p">>, page[1], page[2])>>
                     ELSE <<"f", "o", "o">>,
                  mtime |-> 0]]
    /\ digest_len = 0
    /\ stat_len = 0
    /\ _cache = <<>>
    /\ watched = <<>>
    /\ calls = <<>>
    /\ silent = {}
    /\ now = 0
    /\ codefile_paths = <<PAGE>>
    /\ static_paths = {IMAGE}
    /\ option = NO_REFTYPE
    /\ last_run = <<>>
    /\ outside = FALSE
    /\ args \in ArgLists
    /\ cfg \in WrittenCfgs
    /\ dpc = "called"

\* cfg = read_cfg(args)
ReadCfg ==
    /\ dpc = "called"
    /\ cfg' = read_cfg(cfg)
    /\ stat_len' = cfg'.stat_length
    /\ digest_len' = cfg'.digest_length
    /\ dpc' = "loaded"
    /\ UNCHANGED <<args, files, _cache, watched, calls, silent>>
    /\ UNCHANGED <<rwvars, rsvars, pvars, xvars, psvars>>

\* status(args, cfg) or rewrite(args, cfg), as dispatch calls them
RunCommand ==
    /\ dpc = "loaded"
    /\ get_command(args) \in {STATUS, REWRITE}
    /\ \E target \in {get_target_reftype(args)},
          static_fn_dirs \in Iterations(mk_fn_dir_map(static_paths)) :
       \E run \in {Command(files, codefile_paths, static_fn_dirs, target,
                           get_command(args) = REWRITE, now)} :
          /\ option' = target
          /\ files' = run.files
          /\ last_run' = <<[command |-> IF get_command(args) = REWRITE
                                        THEN "rewrite" ELSE "status",
                            reported |-> run.reported,
                            written |-> run.written,
                            crashed |-> run.crashed,
                            refs |-> run.refs,
                            ref_map |-> run.ref_map,
                            busted |-> DOMAIN run.cache,
                            follows |-> FALSE]>> \o last_run
    /\ dpc' = "ran"
    /\ UNCHANGED <<args, cfg, now, codefile_paths, static_paths, outside>>
    /\ UNCHANGED <<digest_len, stat_len, _cache, watched, calls, silent>>
    /\ UNCHANGED <<rwvars, rsvars, xvars, psvars>>

\* the program is called again, with other arguments; last_run keeps the
\* runs of all calls, the last one first
CallAgain ==
    /\ dpc = "ran"
    /\ Len(last_run) < MaxRuns
    /\ args' \in ArgLists
    /\ dpc' = "called"
    /\ UNCHANGED <<cfg, rwvars, bvars, rsvars, pvars, xvars, psvars>>

NextDispatch ==
    \/ ReadCfg
    \/ RunCommand
    \/ CallAgain

SpecDispatch == InitDispatch /\ [][NextDispatch]_vars

----------------------------------------------------------------------------
(* Properties of the rewriter.                                             *)

\* the reference has been rewritten from one of the types from to the type to
Rewritten(from, to) ==
    /\ rwpc # "parsed"
    /\ ref.type \in from
    /\ (IF target_reftype = NO_REFTYPE THEN ref.type ELSE target_reftype) = to

\* the parameters of the line other than the "_cb_" parameter
Others == line.pre \o line.post

\* the texts of a QS_REF of the line's path with the bust code code and the
\* other parameters in their order, the "_cb_" parameter at any place
QsTexts(code) ==
    {LineText(line.dir, QS_REF, code, Take(Others, k), Drop(Others, k)) :
        k \in 0..Len(Others)}

\* C4: a conversion between the two marked types (QS_REF to FN_REF, FN_REF
\* to QS_REF) removes the old bust code with its delimiter, leaves no empty
\* query section and no dangling "?" or "&", and keeps every other query
\* parameter verbatim and in its order: what follows the extension of the
\* result is the query of the other parameters (with the new "_cb_"
\* parameter among them for QS_REF) and the closing of the reference.
C4_ConversionKeepsParams ==
    /\ (Rewritten({QS_REF}, FN_REF) /\ ref.bustcode # None) =>
          /\ IsStr(new_fullref)
          /\ \E k \in 1..Len(new_fullref) :
                /\ Drop(new_fullref, k - 1) =
                      Drop(LineText(<<>>, PLAIN_REF, <<>>, Others, <<>>),
                           Len(OPEN) + Len(STEM))
                /\ ~Contains(Take(new_fullref, k - 1), QMARK)
    /\ Rewritten({FN_REF}, QS_REF) =>
          /\ IsStr(new_fullref)
          /\ \E t \in QsTexts(new_bustcode) :
                Drop(new_fullref, Len(OPEN) + Len(line.dir)) =
                    Drop(t, Len(OPEN) + Len(line.dir))

\* C5: rewriting a FN_REF or a QS_REF to its own type with a new bust code
\* replaces the one bust code after the marker of the reference and leaves
\* every other character of the full reference unchanged.
C5_SameKindReplacesOneToken ==
    (/\ Rewritten({FN_REF}, FN_REF) \/ Rewritten({QS_REF}, QS_REF)
     /\ ref.bustcode # None
     /\ ref.bustcode # new_bustcode) =>
        new_fullref =
            LineText(line.dir, line.type, new_bustcode, line.pre, line.post)

\* C6, as the specification states it: rewriting a PLAIN_REF to a QS_REF
\* appends "?_cb_=<code>" after a path without query section, and
\* "&_cb_=<code>" after the existing parameters otherwise.
C6_AppendsAfterParams ==
    Rewritten({PLAIN_REF}, QS_REF) =>
        new_fullref = LineText(line.dir, QS_REF, new_bustcode, Others, <<>>)

\* C6, amended: rewriting a PLAIN_REF to a QS_REF inserts "?_cb_=<code>"
\* directly after the path; the existing parameters follow the bust code in
\* their order, joined to it by "&" in place of their leading "?".
C6_InsertsAfterPath ==
    Rewritten({PLAIN_REF}, QS_REF) =>
        new_fullref = LineText(line.dir, QS_REF, new_bustcode, <<>>, Others)

\* a PLAIN_REF with parameters has been rewritten to a QS_REF
C6_Witness ==
    /\ Rewritten({PLAIN_REF}, QS_REF)
    /\ Others # <<>>
    /\ new_bustcode # <<>>
    /\ IsStr(new_fullref)

\* C7: a conversion to FN_REF inserts "_cb_<code>" between the stem and the
\* extension of the filename and keeps the directory of the reference as it
\* is written: the result starts with the opening of the reference, the
\* directory, the stem, the marker with the bust code and the extension.
C7_DirectoryKept ==
    (Rewritten({PLAIN_REF, QS_REF}, FN_REF) /\ ref.bustcode # None) =>
        /\ IsStr(new_fullref)
        /\ Take(new_fullref,
                Len(OPEN \o line.dir \o STEM \o CB \o new_bustcode \o EXT))
              = OPEN \o line.dir \o STEM \o CB \o new_bustcode \o EXT

\* C8: rewriting a FN_REF or a QS_REF to PLAIN_REF returns a string, the
\* full reference without the bust code and its delimiter.
C8_DebustReturnsPlain ==
    (Rewritten({FN_REF, QS_REF}, PLAIN_REF) /\ ref.bustcode # None) =>
        /\ IsStr(new_fullref)
        /\ new_fullref = LineText(line.dir, PLAIN_REF, <<>>, Others, <<>>)

\* C9: rewriting a reference of any type to QS_REF with a bust code and the
\* result back to the type and the bust code of the reference gives the
\* full reference again.
C9_RoundTrip ==
    (rwpc = "restored" /\ ref.bustcode # None) => restored = line.text

\* C28: every reference the parser emits has a string for its bust code,
\* a QS_REF whose "_cb_" is not followed by "=<code>" and a marked reference
\* with an empty bust code included, and rewriting it with any new bust
\* code to FN_REF or QS_REF returns a string, no error and no None.
C28_ParsedRefRewritable ==
    /\ IsStr(ref.bustcode)
    /\ (rwpc = "rewritten" /\ target_reftype \in {FN_REF, QS_REF}) =>
          IsStr(new_fullref)

----------------------------------------------------------------------------
(* Properties of the buster.                                               *)

\* the buster has been called twice for the watched paths
CalledTwice == calls # <<>> /\ calls[1].previous # <<>>

\* the bust code of the last call, and whether the call before it returned
\* the same
LastBust == calls[1].bust
SameBust == calls[1].previous[1].same_bust

\* a content, a modification time of a watched file differs between the
\* last two calls
ContentChanged == calls[1].previous[1].content_changed
MtimeChanged == calls[1].previous[1].mtime_changed

\* the bust code of a buster with an empty cache
FreshBust(fs, paths) == _bust_paths(<<>>, fs, paths).bust

\* C2, as the specification states it: when the content or the modification
\* time of a file of the paths has changed since the previous call of the
\* buster for the paths, the bust code of the next call differs from the
\* bust code of the previous call (for a buster whose bust codes have both
\* parts, the digest and the stat).
C2_SensitiveToEveryChange ==
    (/\ CalledTwice
     /\ digest_len # 0
     /\ stat_len # 0
     /\ ContentChanged \/ MtimeChanged) =>
        ~SameBust

\* C2, amended: the bust code of the next call differs from the bust code
\* of the previous call when the modification time of a file of the paths
\* has changed and stat_len is not 0, and when the content of a file of the
\* paths has changed, stat_len is 0 and digest_len is not 0.  (With a
\* stat_len that is not 0, a change of content at an unchanged
\* modification time is not seen: the cache answers.)
C2_SensitiveToMtime ==
    CalledTwice =>
        /\ (stat_len # 0 /\ MtimeChanged) => ~SameBust
        /\ (stat_len = 0 /\ digest_len # 0 /\ ContentChanged) =>
              ~SameBust

\* the modification time of one of two watched files has changed between
\* two calls, the contents have not
C2_Witness ==
    /\ CalledTwice
    /\ stat_len # 0
    /\ digest_len # 0
    /\ Len(watched) = 2
    /\ MtimeChanged
    /\ ~ContentChanged

\* C3, as the specification states it: for given contents and modification
\* times of the files, every call for the paths returns the same bust code,
\* the one a buster with an empty cache returns.
C3_SameAsFresh ==
    calls # <<>> => LastBust = FreshBust(calls[1].files, watched)

\* C3, amended: for given contents and modification times of the files,
\* every call for the paths returns the same bust code, the one a buster
\* with an empty cache returns, unless the content of a file of the paths
\* has changed at an unchanged modification time after the buster cached
\* the bust of the file.
C3_SameAsFreshUnlessSilent ==
    (calls # <<>> /\ Range(watched) \cap silent = {}) =>
        LastBust = FreshBust(calls[1].files, watched)

\* the cache answered for every watched file, after a change of a file
C3_Witness ==
    /\ calls # <<>>
    /\ Range(watched) \cap silent = {}
    /\ calls[1].warm
    /\ digest_len # 0
    /\ \E path \in Range(watched) : files[path].mtime # 0

\* the positions of the paths whose bust has changed between the last two
\* calls
BustsChanged == calls[1].previous[1].busts_changed

\* C14: when the buster is called for two or more paths after the bust of
\* any one of their files has changed, the bust code it returns differs from
\* the bust code of the call before the change (the hash being free of
\* collisions).
C14_CompositeSensitive ==
    (CalledTwice /\ Len(watched) >= 2 /\ BustsChanged # {}) => ~SameBust

\* the bust of exactly one of two files has changed between two calls
C14_Witness ==
    /\ CalledTwice
    /\ Len(watched) = 2
    /\ Cardinality(BustsChanged) = 1
    /\ ~SameBust

\* C15: every bust code the buster returns, for one path and for several
\* paths, and the bust of every file it is made of, has exactly
\* stat_len + digest_len characters (the hash having that many).
C15_TokenLength ==
    (calls # <<>> /\ digest_len + stat_len <= DigestSize) =>
        /\ Len(LastBust) = stat_len + digest_len
        /\ \A k \in 1..Len(calls[1].busts) :
              Len(calls[1].busts[k]) = stat_len + digest_len

\* a bust code of two files with both parts, the digest and the stat, after
\* the cache answered for both
C15_Witness ==
    /\ calls # <<>>
    /\ Len(watched) = 2
    /\ digest_len # 0
    /\ stat_len # 0
    /\ calls[1].warm

\* the bust of a file as computed from its content and its modification
\* time
ComputedBust(fs, path) ==
    (IF digest_len = 0 THEN <<>> ELSE DigestPrefix(fs[path].content, digest_len))
    \o filestat(fs, path, stat_len)

\* the stat stored with the cached bust of a file is the stat of the file
StatCached(path) ==
    /\ path \in DOMAIN _cache
    /\ LastN(_cache[path], stat_len) = filestat(files, path, stat_len)

\* C25: on a buster with a stat_len that is not 0, a call for a path whose
\* stat equals the one stored with its cached bust returns the cached bust
\* without reading the file and leaves the cache entry; a call for a path
\* whose stat differs, or that has no cached bust, computes the bust from
\* the content and the stat of the file and stores it in the cache.
C25_CacheFastPath ==
    [][(calls' # calls /\ calls' # <<>> /\ stat_len # 0) =>
          \A k \in 1..Len(watched) :
              IF StatCached(watched[k])
              THEN /\ calls'[1].busts[k] = _cache[watched[k]]
                   /\ watched[k] \in calls'[1].hits
                   /\ _cache'[watched[k]] = _cache[watched[k]]
              ELSE /\ calls'[1].busts[k] = ComputedBust(files, watched[k])
                   /\ watched[k] \notin calls'[1].hits
                   /\ _cache'[watched[k]] = calls'[1].busts[k]]_vars

\* a call for two files: the cache answered for one of them and not for
\* the other, whose modification time had changed
C25_Witness ==
    /\ CalledTwice
    /\ stat_len # 0
    /\ calls[1].hits # {}
    /\ calls[1].hits # Range(watched)

----------------------------------------------------------------------------
(* Properties of the resolver.                                             *)

\* the directories of the index for the filename of the reference
Candidates ==
    Let(mk_fn_dir_map(static_filepaths), LAMBDA static_fn_dirs :
        IF path_split(ref_path)[2] \in DOMAIN static_fn_dirs
        THEN static_fn_dirs[path_split(ref_path)[2]]
        ELSE {})

\* the components of the directory of the reference
RefDirParts ==
    SelectSeq(split(path_split(ref_path)[1]), LAMBDA part : part # <<>>)

\* the length of the longest common trailing run of two tuples of components
TrailingRun(p, q) ==
    Max({n \in 0..Len(p) : n <= Len(q) /\ LastN(p, n) = LastN(q, n)})

\* the length of the longest common leading run of two tuples of components
LeadingRun(p, q) ==
    Max({n \in 0..Len(p) : n <= Len(q) /\ SubSeq(p, 1, n) = SubSeq(q, 1, n)})

SuffixRun(dir) == TrailingRun(split(dir), RefDirParts)
PrefixRun(dir) == LeadingRun(split(dir), split(base_dir))

\* the candidates with the longest trailing run
BestSuffix ==
    {dir \in Candidates : \A other \in Candidates : SuffixRun(other) <= SuffixRun(dir)}

\* C10: for a filename of the index, the directory closest_matching_path
\* returns is a candidate with the longest trailing run of components in
\* common with the directory of the reference, and among these candidates
\* one with the longest leading run of components in common with the
\* directory of the code file.
C10_TwoPhaseResolution ==
    (rspc = "answered" /\ Candidates # {}) =>
        /\ static_dir \in BestSuffix
        /\ \A other \in BestSuffix : PrefixRun(other) <= PrefixRun(static_dir)

\* C27: for a filename of the index, the path find_static_filepath returns
\* is a path of the static files: its directory is one of the candidates of
\* the filename, whatever the directory of the reference and the directory
\* of the code file are.
C27_ResolutionInsideIndex ==
    (rspc = "answered" /\ Candidates # {}) =>
        /\ static_dir \in Candidates
        /\ static_filepath \in static_filepaths

\* C11: the directory closest_matching_path returns for a directory of the
\* code file, a directory of the reference and a set of candidates is the
\* same for every order in which the set of candidates is iterated.
C11_StableTieBreak ==
    (rspc = "answered" /\ Candidates # {}) =>
        \A dirpaths \in Orders(Candidates) :
            closest_matching_path(base_dir, path_split(ref_path)[1], dirpaths)
                = static_dir

----------------------------------------------------------------------------
(* Properties of the commands.                                             *)

\* the last run is a run of rewrite that directly follows a run of rewrite
\* with the same options, no file changed from outside in between
SecondRewrite ==
    /\ last_run # <<>>
    /\ last_run[1].command = "rewrite"
    /\ last_run[1].follows

\* C1: a run of rewrite that directly follows a run of rewrite with the same
\* options, with no file changed from outside in between, reports no
\* reference as changed and writes no file; this holds for files that are
\* both code files and static files too.
C1_SecondRewriteIdle ==
    SecondRewrite => last_run[1].reported = 0 /\ last_run[1].written = <<>>

\* the reference has no static file: the filename of its path is no key of
\* the index
Unresolvable(r) == path_split(r.path)[2] \notin DOMAIN mk_fn_dir_map(static_paths)

\* the references of the scan result of the last run
ScannedRefs == {last_run[1].ref_map[k][1] : k \in 1..Len(last_run[1].ref_map)}

\* the static files of the scan result of the last run
ScannedPaths ==
    UNION {Range(last_run[1].ref_map[k][2]) : k \in 1..Len(last_run[1].ref_map)}

\* C12: a reference without static file is not in the scan result, no bust
\* code is computed for it (bust codes are computed for the files of the scan
\* result only), its text is in its line after a run of rewrite as before,
\* and the references with a static file after it, in the same and in later
\* code files, are in the scan result and have their bust code computed.
C12_UnresolvableSkipped ==
    last_run # <<>> =>
        LET run == last_run[1] IN
        /\ ~run.crashed
        /\ run.busted = ScannedPaths
        /\ \A k \in 1..Len(run.refs) :
              Unresolvable(run.refs[k]) =>
                 /\ run.refs[k] \notin ScannedRefs
                 /\ Contains(files[ref_codepath(run.refs[k])]
                                 .content[run.refs[k].lineno],
                             run.refs[k].full_ref)
                 /\ \A j \in (k + 1)..Len(run.refs) :
                       ~Unresolvable(run.refs[j]) =>
                          run.refs[j] \in ScannedRefs

\* C20: a run of rewrite writes every code file with changed references
\* exactly once, however many changed references the file has: no code file
\* is among the written files of the run twice.
C20_OneWritePerFile ==
    (last_run # <<>> /\ last_run[1].command = "rewrite") =>
        \A i, j \in 1..Len(last_run[1].written) :
            i # j => last_run[1].written[i] # last_run[1].written[j]

\* C21: a run of rewrite leaves every code file none of whose references it
\* reports as changed as it was, the content and the modification time:
\* a code file changes in a step only when the step is a run of rewrite
\* that has the file among its written files.
C21_UntouchedFiles ==
    [][\A path \in Range(codefile_paths) :
          files'[path] # files[path] =>
             /\ last_run' # <<>>
             /\ last_run'[1].command = "rewrite"
             /\ path \in Range(last_run'[1].written)]_vars

\* a run of rewrite has written one of two code files and not the other
C21_Witness ==
    /\ last_run # <<>>
    /\ last_run[1].command = "rewrite"
    /\ last_run[1].written # <<>>
    /\ \E path \in Range(codefile_paths) : path \notin Range(last_run[1].written)

\* C26: a run of status leaves every file of the project, the code files
\* and the static files, with the content and the modification time it had
\* (a run of status is a step to a state whose last run is of status, in
\* which no file was edited from outside and the clock did not tick).
C26_StatusReadOnly ==
    [][(/\ last_run' # <<>>
        /\ last_run'[1].command = "status"
        /\ outside' = outside
        /\ now' = now) => files' = files]_vars

\* a run of status has reported references as changed
C26_Witness ==
    /\ last_run # <<>>
    /\ last_run[1].command = "status"
    /\ last_run[1].reported > 0

----------------------------------------------------------------------------
(* Properties of the expander.                                             *)

\* path from its character i on, with every occurrence of marker
\* substituted and every other character kept
RECURSIVE Substituted(_, _, _, _)
Substituted(path, i, marker, replacement) ==
    IF i > Len(path) THEN <<>>
    ELSE IF MatchAt(path, i, marker)
    THEN replacement \o Substituted(path, i + Len(marker), marker, replacement)
    ELSE <<path[i]>> \o Substituted(path, i + 1, marker, replacement)

\* the markers of the table whose text occurs in the path of the reference
OccurringMarkers ==
    {m \in DOMAIN multibust : \E i \in 1..Len(ref_path) : MatchAt(ref_path, i, m)}

\* C13: what expand_path returns is exactly the set of the path of the
\* reference and, for every marker of the table that occurs in the path and
\* every replacement of that marker, the path with that marker substituted
\* and every other marker left as it is; it is the set of the path alone
\* when the table is empty or no marker of it occurs in the path.
C13_ExpansionResult ==
    xpc \in {"expanded", "scanned"} =>
        /\ expanded =
              {ref_path} \cup
              UNION {{Substituted(ref_path, 1, m, multibust[m][k]) :
                         k \in 1..Len(multibust[m])} : m \in OccurringMarkers}
        /\ OccurringMarkers = {} => expanded = {ref_path}

\* a path with two markers of the table is expanded for each of them
C13_Witness ==
    /\ xpc = "expanded"
    /\ OccurringMarkers = Markers
    /\ Cardinality(expanded) = 3

\* the orders in which scan_project can be handed the expanded paths
PathOrders ==
    IF DOMAIN multibust # {} THEN ref_paths(ref_path, multibust)
    ELSE {<<ref_path>>}

\* C16: the static files scan_project attaches to a reference hold no path
\* twice, and they and their bust code are the same for every order in
\* which the expanded paths and the directories of the index are iterated.
C16_CanonicalPaths ==
    xpc = "scanned" =>
        /\ \A i, j \in 1..Len(reffed_filepaths) :
              i # j => reffed_filepaths[i] # reffed_filepaths[j]
        /\ \A paths \in PathOrders,
              static_fn_dirs \in Iterations(mk_fn_dir_map(static_filepaths)) :
              Let(find_static_filepaths(base_dir, paths, static_fn_dirs),
                  LAMBDA reffed :
                      /\ reffed = reffed_filepaths
                      /\ reffed # <<>> =>
                            _bust_paths(<<>>, files, reffed).bust = ref_bust)

----------------------------------------------------------------------------
(* Properties of the parser.                                               *)

\* where the text of a reference starts and ends in its line
MatchStart(r) == Find(code_lines[r.lineno], r.full_ref, 1)
MatchEnd(r) == MatchStart(r) + Len(r.full_ref) - 1

ParsedRefs == Range(content_refs)

\* C17: no plain reference the parser returns has "_cb_" in its text; text
\* with a bust marker is returned as a reference of type FN_REF or QS_REF
\* only, so no plain reference is made of text of a marked reference; and
\* without the parsing of plain references no plain reference is returned.
C17_PlainMarkedExclusive ==
    ppc = "parsed" =>
        /\ \A r \in ParsedRefs : r.type = PLAIN_REF => ~Contains(r.full_ref, CB)
        /\ \A r, m \in ParsedRefs :
              (/\ r.type = PLAIN_REF
               /\ m.type \in {FN_REF, QS_REF}
               /\ r.lineno = m.lineno) =>
                  (MatchEnd(r) < MatchStart(m) \/ MatchEnd(m) < MatchStart(r))
        /\ ~plain_parsing => \A r \in ParsedRefs : r.type # PLAIN_REF

\* C18: no reference the parser returns, of any type, has "data:image/" in
\* its text.
C18_NoDataImage ==
    ppc = "parsed" => \A r \in ParsedRefs : ~Contains(r.full_ref, DATA_IMAGE)

\* a line with a reference and a data URI, of which the reference is
\* returned
C18_Witness ==
    /\ ppc = "parsed"
    /\ \E n \in 1..Len(code_lines) :
          /\ Contains(code_lines[n], DATA_IMAGE)
          /\ \E r \in ParsedRefs : r.lineno = n

\* C19: the references the parser returns are in the order of their lines,
\* and those of one line in the order of the places of their text in the
\* line, from the left to the right, whatever their types.
C19_ParserOrder ==
    ppc = "parsed" =>
        \A i, j \in 1..Len(content_refs) :
            i < j =>
                /\ content_refs[i].lineno <= content_refs[j].lineno
                /\ content_refs[i].lineno = content_refs[j].lineno =>
                      MatchStart(content_refs[i]) <= MatchStart(content_refs[j])

----------------------------------------------------------------------------
(* Properties of the command line.                                         *)

\* C22: a configuration whose bust_length is zero or negative is rejected
\* when it is read: no command runs on it, so no file is scanned, no bust
\* code computed and no file written.
C22_BustLengthRejected ==
    cfg.bust_length <= 0 => dpc # "ran" /\ last_run = <<>>

\* C24: the target reference type of the arguments is FN_REF when they hold
\* --filename, QS_REF when they hold --querystring and None when they hold
\* neither, whatever other options they hold.
C24_TargetReftype ==
    dpc = "ran" =>
        option = IF FILENAME \in Range(args) THEN FN_REF
                 ELSE IF QUERYSTRING \in Range(args) THEN QS_REF
                 ELSE NO_REFTYPE

\* the target reference type the arguments ask for with --filename or
\* --querystring
AskedReftype ==
    IF FILENAME \in Range(args) THEN FN_REF
    ELSE IF QUERYSTRING \in Range(args) THEN QS_REF
    ELSE NO_REFTYPE

\* the references of the code files that have a static file
ResolvedRefs ==
    Let(iter_refs(files, codefile_paths, TRUE), LAMBDA refs :
        {r \in Range(refs) :
            path_split(r.path)[2] \in DOMAIN mk_fn_dir_map(static_paths)})

\* C23: after a run of rewrite with --querystring (with --filename), every
\* reference that has a static file carries its bust code in the query
\* string (in the filename), whatever its type was before the run and
\* whether or not its bust code was up to date.
C23_TargetForAllRefs ==
    (/\ dpc = "ran"
     /\ last_run[1].command = "rewrite"
     /\ AskedReftype # NO_REFTYPE) =>
        \A r \in ResolvedRefs : r.type = AskedReftype

=============================================================================
